---- MODULE Spec2Model ----
(***************************************************************************)
(* Model of src/mos6502/mod.rs: the MOS6502 core (registers, flags, the    *)
(* opcode table, the addressing-mode resolvers, the operation executors    *)
(* and step()).                                                            *)
(*                                                                         *)
(* The core is written as operators over a record `s` holding the fields   *)
(* of struct MOS6502; the module's variables are those fields, and every   *)
(* action loads the record an operator returns.  A panic is the field      *)
(* `panic` (the message; "" while the core runs).  Rust's `+`, `-`, `+=`,  *)
(* `-=` on u8/u16 panic when the build has overflow checks (the dev        *)
(* profile) and wrap otherwise (the release profile); `overflow_checks`    *)
(* is the build, chosen in Init and never changed.                         *)
(***************************************************************************)
EXTENDS Integers, Sequences, FiniteSets, TLC

VARIABLES
    a, x, y, pc, sp, status,      \* pub registers (lines 29-34)
    debug, debug_line,            \* pub debug flag and trace line (36-37)
    ticks,                        \* pub cycle counter (39)
    value, addr,                  \* scratch latches (41-42)
    current_opcode, opcode,       \* fetched byte and its descriptor (44-45)
    mem,                          \* the bus: written/initialised bytes
    log,                          \* bus accesses and dispatches of the latest call
    panic,                        \* "" or the panic message
    overflow_checks,              \* the build: TRUE = overflow panics
    phase,                        \* "idle" | "fetched" | "halted"
    trace,                        \* the calls made so far, oldest first
    start,                        \* the core at Init
    pre                           \* the core on entry to the latest call

vars == <<a, x, y, pc, sp, status, debug, debug_line, ticks, value, addr,
          current_opcode, opcode, mem, log, panic, overflow_checks,
          phase, trace, start, pre>>

----------------------------------------------------------------------------
(* Flag masks, lines 3-9 *)
CARRY == 1
ZERO == 2
INTERRUPT == 4
DECIMAL == 8
BRK == 16
OVERFLOW == 64
SIGN == 128

(* Bounds of the model *)
MaxCalls == 4

Byte == 0..255
Word == 0..65535

(* u8 bit operators: &, |, ^, ! *)
Bit(n, i) == (n \div (2 ^ i)) % 2

BitAnd(p, q) ==
    Bit(p, 0) * Bit(q, 0) + 2 * Bit(p, 1) * Bit(q, 1)
    + 4 * Bit(p, 2) * Bit(q, 2) + 8 * Bit(p, 3) * Bit(q, 3)
    + 16 * Bit(p, 4) * Bit(q, 4) + 32 * Bit(p, 5) * Bit(q, 5)
    + 64 * Bit(p, 6) * Bit(q, 6) + 128 * Bit(p, 7) * Bit(q, 7)

BitXor(p, q) == p + q - 2 * BitAnd(p, q)

BitOr(p, q) == p + q - BitAnd(p, q)

BitNot(p) == 255 - p

(* {:02X} and {:04X} *)
HexDigits == <<"0", "1", "2", "3", "4", "5", "6", "7",
               "8", "9", "A", "B", "C", "D", "E", "F">>

Hex2(n) == HexDigits[((n \div 16) % 16) + 1] \o HexDigits[(n % 16) + 1]

Hex4(n) == Hex2(n \div 256) \o Hex2(n % 256)

----------------------------------------------------------------------------
(* The core as a record *)
cpu ==
    [a |-> a, x |-> x, y |-> y, pc |-> pc, sp |-> sp, status |-> status,
     debug |-> debug, debug_line |-> debug_line, ticks |-> ticks,
     value |-> value, addr |-> addr, current_opcode |-> current_opcode,
     opcode |-> opcode, mem |-> mem, log |-> log, panic |-> panic,
     overflow_checks |-> overflow_checks]

Panicked(s) == s.panic # ""

Fail(s, msg) == [s EXCEPT !.panic = msg]

AddOverflow == "attempt to add with overflow"

SubOverflow == "attempt to subtract with overflow"

(* a value paired with the core it left behind *)
Ret(s, v) == [cpu |-> s, ret |-> v]

(* the bus: a byte per address, 0 where nothing was stored *)
BusRead(m, ad) == IF ad \in DOMAIN m THEN m[ad] ELSE 0

BusWrite(m, ad, v) ==
    [k \in (DOMAIN m) \cup {ad} |-> IF k = ad THEN v ELSE m[k]]

read8(s, ad) ==
    Ret([s EXCEPT !.log = Append(@, <<"read", ad>>)], BusRead(s.mem, ad))

write8(s, ad, v) ==
    [s EXCEPT !.mem = BusWrite(@, ad, v),
              !.log = Append(@, <<"write", ad>>)]

advance_pc(s) ==
    IF s.pc + 1 > 65535 /\ s.overflow_checks
    THEN Ret(Fail(s, AddOverflow), s.pc)
    ELSE Ret([s EXCEPT !.pc = (s.pc + 1) % 65536], s.pc)

read8_from_pc(s) ==
    LET r == advance_pc(s)
    IN  IF Panicked(r.cpu) THEN Ret(r.cpu, 0) ELSE read8(r.cpu, r.ret)

read16_from_pc(s) ==
    LET lo == read8_from_pc(s)
    IN  IF Panicked(lo.cpu) THEN Ret(lo.cpu, 0)
        ELSE LET hi == read8_from_pc(lo.cpu)
             IN  IF Panicked(hi.cpu) THEN Ret(hi.cpu, 0)
                 ELSE Ret(hi.cpu, hi.ret * 256 + lo.ret)

get_opcode_name(s) == s.opcode.name

get_flag(s, flag) == BitAnd(s.status, flag) # 0

set_flag(s, flag, enabled) ==
    IF enabled
    THEN [s EXCEPT !.status = BitOr(@, flag)]
    ELSE [s EXCEPT !.status = BitAnd(@, BitNot(flag))]

----------------------------------------------------------------------------
(* Addressing-mode resolvers, lines 149-264 *)
(* `ticks` is a u64. The model holds it in its two's-complement reading    *)
(* (`ticks as i64`): a count t below 2^63 is t, and 2^64 - k is -k, so     *)
(* u64::MAX is -1. An addition carries out of the 64 bits exactly when it  *)
(* takes a negative reading to a non-negative one; the wrapped result is   *)
(* then the plain sum.                                                     *)
TicksOverflow(t, n) == t < 0 /\ t + n >= 0

(* `self.ticks += n` *)
Tick(s, n) ==
    IF TicksOverflow(s.ticks, n) /\ s.overflow_checks
    THEN Fail(s, AddOverflow)
    ELSE [s EXCEPT !.ticks = @ + n]

DebugLine(s, text) == IF s.debug THEN [s EXCEPT !.debug_line = text] ELSE s

(* implied without its 2-cycle charge *)
implied_free(s) == DebugLine(s, get_opcode_name(s))

implied(s) ==
    LET s1 == Tick(s, 2)
    IN  IF Panicked(s1) THEN s1 ELSE DebugLine(s1, get_opcode_name(s1))

immediate(s) ==
    LET r == read8_from_pc(s)
    IN  IF Panicked(r.cpu) THEN r.cpu
        ELSE LET s1 == Tick([r.cpu EXCEPT !.value = r.ret], 2)
             IN  IF Panicked(s1) THEN s1
                 ELSE DebugLine(s1, get_opcode_name(s1) \o " #$"
                                        \o Hex2(s1.value))

(* `as i8` *)
AsI8(b) == IF b >= 128 THEN b - 256 ELSE b

(* `as u16` of an i32 *)
AsU16(n) == (n + 65536) % 65536

relative(s) ==
    LET r == read8_from_pc(s)
    IN  IF Panicked(r.cpu) THEN r.cpu
        ELSE LET offset == AsI8(r.ret)
                 s1 == Tick(r.cpu, 2)
                 s2 == [s1 EXCEPT !.addr = AsU16(s1.pc + offset)]
             IN  IF Panicked(s1) THEN s1
                 ELSE DebugLine(s2, get_opcode_name(s2) \o " $"
                                        \o Hex4(s2.addr))

(* line 179 writes the trace line whatever the debug flag *)
zeropage(s) ==
    LET r == read8_from_pc(s)
    IN  IF Panicked(r.cpu) THEN r.cpu
        ELSE LET s1 == [r.cpu EXCEPT !.addr = r.ret]
                 v == read8(s1, r.ret)
                 s2 == Tick([v.cpu EXCEPT !.value = v.ret], 3)
             IN  IF Panicked(s2) THEN s2
                 ELSE [s2 EXCEPT !.debug_line =
                          get_opcode_name(s2) \o " $" \o Hex2(s2.addr)]

absolute(s) ==
    LET r == read16_from_pc(s)
    IN  IF Panicked(r.cpu) THEN r.cpu
        ELSE LET s1 == [r.cpu EXCEPT !.addr = r.ret]
                 v == read8(s1, r.ret)
                 s2 == Tick([v.cpu EXCEPT !.value = v.ret], 4)
             IN  IF Panicked(s2) THEN s2
                 ELSE DebugLine(s2, get_opcode_name(s2) \o " $"
                                        \o Hex4(s2.addr))

absolute_x(s) ==
    LET r == read16_from_pc(s)
    IN  IF Panicked(r.cpu) THEN r.cpu
        ELSE IF r.ret + s.x > 65535 /\ s.overflow_checks
        THEN Fail(r.cpu, AddOverflow)
        ELSE LET addr_x == (r.ret + s.x) % 65536
                 boundary == IF r.ret \div 256 # addr_x \div 256 THEN 1 ELSE 0
                 s1 == [r.cpu EXCEPT !.addr = addr_x]
                 v == read8(s1, addr_x)
                 s2 == Tick([v.cpu EXCEPT !.value = v.ret], 4 + boundary)
             IN  IF Panicked(s2) THEN s2 ELSE
                 DebugLine(s2, get_opcode_name(s2) \o " $" \o Hex4(s2.addr)
                                   \o ",X")

absolute_y(s) ==
    LET r == read16_from_pc(s)
    IN  IF Panicked(r.cpu) THEN r.cpu
        ELSE IF r.ret + s.y > 65535 /\ s.overflow_checks
        THEN Fail(r.cpu, AddOverflow)
        ELSE LET addr_y == (r.ret + s.y) % 65536
                 boundary == IF r.ret \div 256 # addr_y \div 256 THEN 1 ELSE 0
                 s1 == [r.cpu EXCEPT !.addr = addr_y]
                 v == read8(s1, addr_y)
                 s2 == Tick([v.cpu EXCEPT !.value = v.ret], 4 + boundary)
             IN  IF Panicked(s2) THEN s2 ELSE
                 DebugLine(s2, get_opcode_name(s2) \o " $" \o Hex4(s2.addr)
                                   \o ",Y")

(* zeropage_x, indirect_x and indirect_y without their `self.pc += 1` *)
KeepPc(s) == s

(* `self.pc += 1` of zeropage_x, indirect_x and indirect_y *)
IncPc(s) ==
    IF s.pc + 1 > 65535 /\ s.overflow_checks
    THEN Fail(s, AddOverflow)
    ELSE [s EXCEPT !.pc = (s.pc + 1) % 65536]

zeropage_x(s) ==
    LET r == read8(s, s.pc)
    IN  IF r.ret + s.x > 255 /\ s.overflow_checks
        THEN Fail(r.cpu, AddOverflow)
        ELSE LET offset == (r.ret + s.x) % 256
                 s1 == [r.cpu EXCEPT !.addr = offset]
                 v == read8(s1, offset)
                 s2 == IncPc([v.cpu EXCEPT !.value = v.ret])
             IN  IF Panicked(s2) THEN s2
                 ELSE LET s3 == Tick(s2, 3)
                      IN  IF Panicked(s3) THEN s3 ELSE
                          DebugLine(s3, get_opcode_name(s3) \o " $"
                                            \o Hex2(s3.addr) \o ",X")

indirect_x(s) ==
    LET r == read8(s, s.pc)
    IN  IF r.ret + s.x > 255 /\ s.overflow_checks
        THEN Fail(r.cpu, AddOverflow)
        ELSE LET offset == (r.ret + s.x) % 256
                 s1 == [r.cpu EXCEPT !.addr = offset]
                 ind == read8(s1, offset)
                 v == read8(ind.cpu, ind.ret)
                 s2 == IncPc([v.cpu EXCEPT !.value = v.ret])
             IN  IF Panicked(s2) THEN s2
                 ELSE LET s3 == Tick(s2, 2)
                      IN  IF Panicked(s3) THEN s3 ELSE
                          DebugLine(s3, get_opcode_name(s3) \o " ($"
                                            \o Hex2(s3.addr) \o ",X)")

indirect_y(s) ==
    LET r == read8(s, s.pc)
        s1 == [r.cpu EXCEPT !.addr = r.ret]
        ind == read8(s1, r.ret)
        indirect_addr == ind.ret + s.y
        v == read8(ind.cpu, indirect_addr)
        s2 == IncPc([v.cpu EXCEPT !.value = v.ret])
    IN  IF Panicked(s2) THEN s2
        ELSE LET s3 == Tick(s2, 2)
                 s4 == IF Panicked(s3) \/ indirect_addr \div 256 = 0
                       THEN s3 ELSE Tick(s3, 1)
             IN  IF Panicked(s4) THEN s4 ELSE
                 DebugLine(s4, get_opcode_name(s4) \o " ($"
                                   \o Hex2(s4.addr) \o "),Y")

----------------------------------------------------------------------------
(* Operation executors, lines 280-515 *)

(* the two set_flag calls that close every register-mutating executor *)
SetZeroSign(s, r) == set_flag(set_flag(s, ZERO, r = 0), SIGN, r \div 128 = 1)

lda(s) == SetZeroSign([s EXCEPT !.a = s.value], s.value)

tay(s) == SetZeroSign([s EXCEPT !.y = s.a], s.a)

tax(s) == SetZeroSign([s EXCEPT !.x = s.a], s.a)

txa(s) == SetZeroSign([s EXCEPT !.a = s.x], s.x)

tya(s) == SetZeroSign([s EXCEPT !.a = s.y], s.y)

iny(s) ==
    IF s.y + 1 > 255 /\ s.overflow_checks THEN Fail(s, AddOverflow)
    ELSE SetZeroSign([s EXCEPT !.y = (s.y + 1) % 256], (s.y + 1) % 256)

inx(s) ==
    IF s.x + 1 > 255 /\ s.overflow_checks THEN Fail(s, AddOverflow)
    ELSE SetZeroSign([s EXCEPT !.x = (s.x + 1) % 256], (s.x + 1) % 256)

ldy(s) == SetZeroSign([s EXCEPT !.y = s.value], s.value)

stx(s) == write8(s, s.addr, s.x)

sty(s) == write8(s, s.addr, s.y)

sta(s) == write8(s, s.addr, s.a)

ldx(s) == SetZeroSign([s EXCEPT !.x = s.value], s.value)

and(s) ==
    LET r == BitAnd(s.a, s.value)
    IN  SetZeroSign([s EXCEPT !.a = r], r)

(* `as u8` of an i16 *)
AsU8(n) == (n + 65536) % 256

(* sbc reading Carry the way adc does (carry set = one more to subtract) *)
sbc_carry_as_borrow(s) ==
    LET carry == IF get_flag(s, CARRY) THEN 1 ELSE 0
        orig_a == s.a
        result == orig_a - s.value - carry
        s1 == set_flag(s, CARRY, result >= 0 /\ result <= 255)
        s2 == [s1 EXCEPT !.a = AsU8(result)]
        s3 == SetZeroSign(s2, s2.a)
    IN  set_flag(s3, OVERFLOW,
                 BitAnd(BitAnd(BitXor(orig_a, s2.a), BitXor(s.value, s2.a)),
                        128) # 0)

(* adc with the carry out taken at 255 instead of above it *)
adc_carry_from_255(s) ==
    LET carry == IF get_flag(s, CARRY) THEN 1 ELSE 0
        orig_a == s.a
        result == orig_a + s.value + carry
        s1 == set_flag(s, CARRY, result >= 255)
        s2 == [s1 EXCEPT !.a = AsU8(result)]
        s3 == SetZeroSign(s2, s2.a)
    IN  set_flag(s3, OVERFLOW,
                 BitAnd(BitAnd(BitXor(orig_a, s2.a), BitXor(s.value, s2.a)),
                        128) # 0)

(* adc with the overflow rule taken between the old A and the operand *)
adc_overflow_from_operand(s) ==
    LET carry == IF get_flag(s, CARRY) THEN 1 ELSE 0
        orig_a == s.a
        result == orig_a + s.value + carry
        s1 == set_flag(s, CARRY, result > 255)
        s2 == [s1 EXCEPT !.a = AsU8(result)]
        s3 == SetZeroSign(s2, s2.a)
    IN  set_flag(s3, OVERFLOW,
                 BitAnd(BitAnd(BitXor(orig_a, s2.a), BitXor(orig_a, s.value)),
                        128) # 0)

sbc(s) ==
    LET carry == IF get_flag(s, CARRY) THEN 0 ELSE 1
        orig_a == s.a
        result == orig_a - s.value - carry
        s1 == set_flag(s, CARRY, result >= 0 /\ result <= 255)
        s2 == [s1 EXCEPT !.a = AsU8(result)]
        s3 == SetZeroSign(s2, s2.a)
    IN  set_flag(s3, OVERFLOW,
                 BitAnd(BitAnd(BitXor(orig_a, s2.a), BitXor(s.value, s2.a)),
                        128) # 0)

adc(s) ==
    LET carry == IF get_flag(s, CARRY) THEN 1 ELSE 0
        orig_a == s.a
        result == orig_a + s.value + carry
        s1 == set_flag(s, CARRY, result > 255)
        s2 == [s1 EXCEPT !.a = AsU8(result)]
        s3 == SetZeroSign(s2, s2.a)
    IN  set_flag(s3, OVERFLOW,
                 BitAnd(BitAnd(BitXor(orig_a, s2.a), BitXor(s.value, s2.a)),
                        128) # 0)

jmp(s) == [s EXCEPT !.pc = s.addr]

sec(s) == set_flag(s, CARRY, TRUE)

sei(s) == set_flag(s, INTERRUPT, TRUE)

clc(s) == set_flag(s, CARRY, FALSE)

cli(s) == set_flag(s, INTERRUPT, FALSE)

(* clv clearing the Carry bit instead of Overflow *)
clv_clears_carry(s) == set_flag(s, CARRY, FALSE)

clv(s) == set_flag(s, OVERFLOW, FALSE)

cld(s) == set_flag(s, DECIMAL, FALSE)

sed(s) == set_flag(s, DECIMAL, TRUE)

beq(s) == IF get_flag(s, ZERO) THEN Tick([s EXCEPT !.pc = s.addr], 1) ELSE s

bcs(s) == IF get_flag(s, CARRY) THEN Tick([s EXCEPT !.pc = s.addr], 1) ELSE s

bcc(s) == IF ~get_flag(s, CARRY) THEN Tick([s EXCEPT !.pc = s.addr], 1) ELSE s

(* `self.sp -= n` and `self.sp += 1` *)
SubSp(s, n) ==
    IF s.sp - n < 0 /\ s.overflow_checks THEN Fail(s, SubOverflow)
    ELSE [s EXCEPT !.sp = (s.sp - n + 256) % 256]

IncSp(s) ==
    IF s.sp + 1 > 255 /\ s.overflow_checks THEN Fail(s, AddOverflow)
    ELSE [s EXCEPT !.sp = (s.sp + 1) % 256]

pha(s) ==
    LET s1 == SubSp(write8(s, 256 + s.sp, s.a), 1)
    IN  IF Panicked(s1) THEN s1 ELSE Tick(s1, 1)

pla(s) ==
    LET s1 == IncSp(s)
    IN  IF Panicked(s1) THEN s1
        ELSE LET r == read8(s1, 256 + s1.sp)
             IN  Tick([r.cpu EXCEPT !.a = r.ret], 2)

php(s) ==
    LET s1 == SubSp(write8(s, 256 + s.sp, s.status), 1)
    IN  IF Panicked(s1) THEN s1 ELSE Tick(s1, 1)

plp(s) ==
    LET s1 == IncSp(s)
    IN  IF Panicked(s1) THEN s1
        ELSE LET r == read8(s1, 256 + s1.sp)
             IN  Tick([r.cpu EXCEPT !.status = r.ret], 2)

jsr(s) ==
    LET sp16 == 256 + s.sp
    IN  IF s.pc - 1 < 0 /\ s.overflow_checks THEN Fail(s, SubOverflow)
        ELSE LET pc1 == (s.pc - 1 + 65536) % 65536
                 pc_high == pc1 \div 256
                 pc_low == pc1 % 256
                 s1 == write8(write8(s, sp16, pc_high), sp16 - 1, pc_low)
                 s2 == SubSp(s1, 2)
             IN  IF Panicked(s2) THEN s2
                 ELSE Tick([s2 EXCEPT !.pc = s.addr], 2)

rts(s) ==
    LET s1 == IncSp(s)
    IN  IF Panicked(s1) THEN s1
        ELSE LET sp16 == 256 + s1.sp
                 lo == read8(s1, sp16)
                 hi == read8(lo.cpu, sp16 + 1)
                 s2 == IncSp(hi.cpu)
                 ret_addr == hi.ret * 256 + lo.ret
             IN  IF Panicked(s2) THEN s2
                 ELSE IF ret_addr + 1 > 65535 /\ s.overflow_checks
                 THEN Fail(s2, AddOverflow)
                 ELSE Tick([s2 EXCEPT !.pc = (ret_addr + 1) % 65536], 4)

nop(s) == s

invalid(s) == Fail(s, "invalid opcode " \o Hex2(s.current_opcode))

----------------------------------------------------------------------------
(* The opcode table and construction, lines 61-118 *)
(* noop with a resolver that returns: an unregistered byte would run nop *)
noop_implied == [fetch |-> "implied", fun |-> "nop", name |-> "-"]

noop == [fetch |-> "invalid", fun |-> "nop", name |-> "-"]

register_opcode(table, name, fun, code, fetch) ==
    [table EXCEPT ![code] = [fetch |-> fetch, fun |-> fun, name |-> name]]

(* the opcode! calls of new(), in order: <<name, code, fetch>> *)
Registrations ==
    << <<"adc", 105, "immediate">>, <<"adc", 101, "zeropage">>,
       <<"adc", 117, "zeropage_x">>, <<"adc", 109, "absolute">>,
       <<"adc", 125, "absolute_x">>, <<"adc", 121, "absolute_y">>,
       <<"adc", 97, "indirect_x">>, <<"adc", 113, "indirect_y">>,
       <<"clc", 24, "implied">>, <<"sec", 56, "implied">>,
       <<"cli", 88, "implied">>, <<"sei", 120, "implied">>,
       <<"clv", 184, "implied">>, <<"cld", 216, "implied">>,
       <<"sed", 248, "implied">> >>

RECURSIVE RegisterAll(_, _)
RegisterAll(table, n) ==
    IF n = 0 THEN table
    ELSE LET reg == Registrations[n]
         IN  register_opcode(RegisterAll(table, n - 1),
                             reg[1], reg[1], reg[2], reg[3])

opcodes == RegisterAll([code \in Byte |-> noop], Len(Registrations))

new(bus, checks) ==
    [a |-> 0, x |-> 0, y |-> 0, pc |-> 0, sp |-> 255, value |-> 0,
     addr |-> 0, ticks |-> 0, opcode |-> noop, current_opcode |-> 0,
     debug_line |-> "", debug |-> FALSE, status |-> 32, mem |-> bus,
     log |-> <<>>, panic |-> "", overflow_checks |-> checks]

(* (self.opcode.fetch)(self) and (self.opcode.fun)(self) *)
Fetch(f, s) ==
    CASE f = "implied" -> implied(s)
      [] f = "immediate" -> immediate(s)
      [] f = "relative" -> relative(s)
      [] f = "zeropage" -> zeropage(s)
      [] f = "absolute" -> absolute(s)
      [] f = "absolute_x" -> absolute_x(s)
      [] f = "absolute_y" -> absolute_y(s)
      [] f = "zeropage_x" -> zeropage_x(s)
      [] f = "indirect_x" -> indirect_x(s)
      [] f = "indirect_y" -> indirect_y(s)
      [] f = "invalid" -> invalid(s)

Fun(f, s) ==
    CASE f = "lda" -> lda(s) [] f = "tay" -> tay(s) [] f = "tax" -> tax(s)
      [] f = "txa" -> txa(s) [] f = "tya" -> tya(s) [] f = "iny" -> iny(s)
      [] f = "inx" -> inx(s) [] f = "ldy" -> ldy(s) [] f = "stx" -> stx(s)
      [] f = "sty" -> sty(s) [] f = "sta" -> sta(s) [] f = "ldx" -> ldx(s)
      [] f = "and" -> and(s) [] f = "sbc" -> sbc(s) [] f = "adc" -> adc(s)
      [] f = "jmp" -> jmp(s) [] f = "sec" -> sec(s) [] f = "sei" -> sei(s)
      [] f = "clc" -> clc(s) [] f = "cli" -> cli(s) [] f = "clv" -> clv(s)
      [] f = "cld" -> cld(s) [] f = "sed" -> sed(s) [] f = "beq" -> beq(s)
      [] f = "bcs" -> bcs(s) [] f = "bcc" -> bcc(s) [] f = "pha" -> pha(s)
      [] f = "pla" -> pla(s) [] f = "php" -> php(s) [] f = "plp" -> plp(s)
      [] f = "jsr" -> jsr(s) [] f = "rts" -> rts(s) [] f = "nop" -> nop(s)

(* Clock::step, lines 519-527 *)
Dispatched(s, field) == [s EXCEPT !.log = Append(@, <<field, s.opcode[field]>>)]

step(s) ==
    LET r == read8_from_pc(s)
    IN  IF Panicked(r.cpu) THEN r.cpu
        ELSE LET s1 == [r.cpu EXCEPT !.current_opcode = r.ret,
                                     !.opcode = opcodes[r.ret]]
                 s2 == Fetch(s1.opcode.fetch, Dispatched(s1, "fetch"))
             IN  IF Panicked(s2) THEN s2
                 ELSE Fun(s2.opcode.fun, Dispatched(s2, "fun"))

----------------------------------------------------------------------------
(* Actions: one call of step(), of a resolver or of an executor *)
Enter == [cpu EXCEPT !.log = <<>>]

Load(s) ==
    /\ a' = s.a /\ x' = s.x /\ y' = s.y /\ pc' = s.pc /\ sp' = s.sp
    /\ status' = s.status /\ debug' = s.debug /\ debug_line' = s.debug_line
    /\ ticks' = s.ticks /\ value' = s.value /\ addr' = s.addr
    /\ current_opcode' = s.current_opcode /\ opcode' = s.opcode
    /\ mem' = s.mem /\ log' = s.log /\ panic' = s.panic
    /\ overflow_checks' = s.overflow_checks

Call(name, s2, next_phase) ==
    /\ panic = ""
    /\ Len(trace) < MaxCalls
    /\ Load(s2)
    /\ pre' = cpu
    /\ trace' = Append(trace, name)
    /\ phase' = IF Panicked(s2) THEN phase ELSE next_phase
    /\ UNCHANGED start

(* step(): fetch, resolve and execute one instruction *)
Step ==
    /\ phase = "idle"
    /\ Call("step", step(Enter), "idle")

(* one resolver, called on its own *)
Implied ==
    /\ phase = "idle"
    /\ Call("implied", implied(Enter), "fetched")

Immediate ==
    /\ phase = "idle"
    /\ Call("immediate", immediate(Enter), "fetched")

Relative ==
    /\ phase = "idle"
    /\ Call("relative", relative(Enter), "fetched")

Zeropage ==
    /\ phase = "idle"
    /\ Call("zeropage", zeropage(Enter), "fetched")

ZeropageX ==
    /\ phase = "idle"
    /\ Call("zeropage_x", zeropage_x(Enter), "fetched")

Absolute ==
    /\ phase = "idle"
    /\ Call("absolute", absolute(Enter), "fetched")

AbsoluteX ==
    /\ phase = "idle"
    /\ Call("absolute_x", absolute_x(Enter), "fetched")

AbsoluteY ==
    /\ phase = "idle"
    /\ Call("absolute_y", absolute_y(Enter), "fetched")

IndirectX ==
    /\ phase = "idle"
    /\ Call("indirect_x", indirect_x(Enter), "fetched")

IndirectY ==
    /\ phase = "idle"
    /\ Call("indirect_y", indirect_y(Enter), "fetched")

(* one executor, called after a resolver *)
Adc ==
    /\ phase = "fetched"
    /\ Call("adc", adc(Enter), "idle")

Sbc ==
    /\ phase = "fetched"
    /\ Call("sbc", sbc(Enter), "idle")

Beq ==
    /\ phase = "fetched"
    /\ Call("beq", beq(Enter), "idle")

Bcs ==
    /\ phase = "fetched"
    /\ Call("bcs", bcs(Enter), "idle")

Bcc ==
    /\ phase = "fetched"
    /\ Call("bcc", bcc(Enter), "idle")

Pha ==
    /\ phase = "fetched"
    /\ Call("pha", pha(Enter), "idle")

Pla ==
    /\ phase = "fetched"
    /\ Call("pla", pla(Enter), "idle")

Php ==
    /\ phase = "fetched"
    /\ Call("php", php(Enter), "idle")

Plp ==
    /\ phase = "fetched"
    /\ Call("plp", plp(Enter), "idle")

Jsr ==
    /\ phase = "fetched"
    /\ Call("jsr", jsr(Enter), "idle")

Rts ==
    /\ phase = "fetched"
    /\ Call("rts", rts(Enter), "idle")

InitFrom(s0, first_phase) ==
    /\ a = s0.a /\ x = s0.x /\ y = s0.y /\ pc = s0.pc /\ sp = s0.sp
    /\ status = s0.status /\ debug = s0.debug /\ debug_line = s0.debug_line
    /\ ticks = s0.ticks /\ value = s0.value /\ addr = s0.addr
    /\ current_opcode = s0.current_opcode /\ opcode = s0.opcode
    /\ mem = s0.mem /\ log = s0.log /\ panic = s0.panic
    /\ overflow_checks = s0.overflow_checks
    /\ phase = first_phase /\ trace = <<>> /\ start = s0 /\ pre = s0

(* bytes stored from address `at` on *)
Program(at, bytes) ==
    [k \in {(at + i) % 65536 : i \in 0..(Len(bytes) - 1)} |->
        bytes[((k - at + 65536) % 65536) + 1]]

----------------------------------------------------------------------------
(* Spec: a core as new() builds it, the host's program on the bus and its  *)
(* choice of pc and debug (pub fields), driven by step() alone.            *)
ProgramStarts == {0, 1536}

OperandBytes == {0, 5, 52, 105, 128, 255}

Programs ==
    (Byte \X OperandBytes \X {0, 18})
    \cup ({169, 105, 24, 56} \X Byte \X {0})

Init ==
    \E checks \in BOOLEAN, dbg \in BOOLEAN, at \in ProgramStarts,
       prog \in Programs :
        InitFrom([new(Program(at, prog), checks) EXCEPT !.pc = at,
                                                        !.debug = dbg],
                 "idle")

Next == Step

Spec == Init /\ [][Next]_vars

----------------------------------------------------------------------------
(* Helpers of the properties *)
Flag(st, mask) == (st \div mask) % 2 = 1

LastCall == IF trace = <<>> THEN "" ELSE trace[Len(trace)]

RegisteredCodes == {Registrations[i][2] : i \in 1..Len(Registrations)}

InvalidOpcodeMessages == {"invalid opcode " \o Hex2(b) : b \in Byte}

RanExecutor == \E i \in 1..Len(log) : log[i][1] = "fun"

----------------------------------------------------------------------------
(* Properties of step() on a constructed core, under Spec *)

(* C2: on a freshly constructed core, one step() on the program A9 vv      *)
(* completes normally and leaves A = vv, Zero = (vv = 0), Sign = bit 7 of  *)
(* vv, the cycle counter increased by 2 and PC advanced by 2.              *)
C2_LdaImmediateStep ==
    (trace = <<"step">> /\ start.pc = 0 /\ BusRead(start.mem, 0) = 169) =>
        LET vv == BusRead(start.mem, 1)
        IN  /\ panic = ""
            /\ a = vv
            /\ Flag(status, ZERO) = (vv = 0)
            /\ Flag(status, SIGN) = (vv >= 128)
            /\ ticks = start.ticks + 2
            /\ pc = start.pc + 2

(* C3: step() on a byte with no registered descriptor panics with the      *)
(* message carrying exactly that byte and never runs an executor; step()   *)
(* on a registered byte does not panic with an invalid-opcode message.     *)
C3_InvalidOpcodeFatal ==
    LastCall = "step" =>
        LET byte == BusRead(pre.mem, pre.pc)
        IN  IF byte \in RegisteredCodes
            THEN panic \notin InvalidOpcodeMessages
            ELSE /\ panic = "invalid opcode " \o Hex2(byte)
                 /\ ~RanExecutor
                 /\ a = pre.a /\ x = pre.x /\ y = pre.y /\ sp = pre.sp
                 /\ status = pre.status /\ ticks = pre.ticks
                 /\ mem = pre.mem

(* C3 witness: a step() that panicked on the unregistered byte FF, after   *)
(* an earlier step() on a registered byte returned.                        *)
C3_Witness ==
    /\ trace = <<"step", "step">>
    /\ BusRead(pre.mem, pre.pc) = 255
    /\ panic = "invalid opcode FF"

(* C6: with PC=0x0600, SP=0xFF and the bytes 20 34 12 at 0x0600, one       *)
(* step() leaves PC=0x1234, 0x02 at 0x01FF, 0x06 at 0x01FE and SP=0xFD.    *)
C6_JsrScenarioStep ==
    (/\ trace = <<"step">> /\ start.pc = 1536 /\ start.sp = 255
     /\ BusRead(start.mem, 1536) = 32 /\ BusRead(start.mem, 1537) = 52
     /\ BusRead(start.mem, 1538) = 18) =>
        /\ panic = ""
        /\ pc = 4660
        /\ BusRead(mem, 511) = 2
        /\ BusRead(mem, 510) = 6
        /\ sp = 253

----------------------------------------------------------------------------
(* SpecAlu: the adc and sbc executors on every accumulator, every latched  *)
(* value and both carries; the other flags start clear or already set.     *)
EdgeBytes == {0, 1, 127, 128, 255}

AluInputs ==
    (Byte \X Byte \X {32, 33} \X {TRUE})
    \cup (EdgeBytes \X Byte \X {226, 227} \X BOOLEAN)

InitAlu ==
    \E in \in AluInputs :
        InitFrom([new(<<>>, in[4]) EXCEPT !.a = in[1], !.value = in[2],
                                          !.status = in[3]],
                 "fetched")

NextAlu == Adc \/ Sbc

SpecAlu == InitAlu /\ [][NextAlu]_vars

(* the two's-complement reading of a byte *)
Signed(b) == IF b >= 128 THEN b - 256 ELSE b

(* C1: ADC leaves A = (A + value + carryIn) mod 256, Carry = (sum > 255),  *)
(* Zero = (A = 0), Sign = bit 7 of A, and Overflow set exactly when the    *)
(* sign bits of the old A and of the value both differ from the sign bit   *)
(* of the new A; FF + 01 gives 00 with Carry and Zero and no Overflow, and *)
(* 7F + 01 gives 80 with Overflow and Sign and no Carry.                   *)
C1_AdcFlags ==
    trace = <<"adc">> =>
        LET carryIn == IF Flag(start.status, CARRY) THEN 1 ELSE 0
            sum == start.a + start.value + carryIn
        IN  /\ panic = ""
            /\ a = sum % 256
            /\ Flag(status, CARRY) = (sum > 255)
            /\ Flag(status, ZERO) = (a = 0)
            /\ Flag(status, SIGN) = (a >= 128)
            /\ Flag(status, OVERFLOW) =
                   (/\ (start.a >= 128) # (a >= 128)
                    /\ (start.value >= 128) # (a >= 128))
            /\ (start.a = 255 /\ start.value = 1 /\ carryIn = 0) =>
                   (/\ a = 0 /\ Flag(status, CARRY) /\ Flag(status, ZERO)
                    /\ ~Flag(status, OVERFLOW))
            /\ (start.a = 127 /\ start.value = 1 /\ carryIn = 0) =>
                   (/\ a = 128 /\ Flag(status, OVERFLOW)
                    /\ Flag(status, SIGN) /\ ~Flag(status, CARRY))

(* C1 witness: 7F + 01 with Carry clear has been added and overflowed *)
C1_Witness ==
    /\ trace = <<"adc">>
    /\ start.a = 127 /\ start.value = 1 /\ ~Flag(start.status, CARRY)
    /\ a = 128 /\ Flag(status, OVERFLOW)

(* C10: SBC leaves A = (A - value - borrow) mod 256, Carry set exactly     *)
(* when no borrow occurred (A >= value + borrow), Zero = (A = 0), Sign =   *)
(* bit 7 of A, and Overflow by the same sign-bit rule as ADC.              *)
C10_SbcFlags ==
    trace = <<"sbc">> =>
        LET borrow == IF Flag(start.status, CARRY) THEN 0 ELSE 1
            diff == start.a - start.value - borrow
        IN  /\ panic = ""
            /\ a = (diff + 256) % 256
            /\ Flag(status, CARRY) = (start.a >= start.value + borrow)
            /\ Flag(status, CARRY) = (0 <= diff /\ diff <= 255)
            /\ Flag(status, ZERO) = (a = 0)
            /\ Flag(status, SIGN) = (a >= 128)
            /\ Flag(status, OVERFLOW) =
                   (/\ (start.a >= 128) # (a >= 128)
                    /\ (start.value >= 128) # (a >= 128))

(* C10 witness: 00 - 01 with Carry set has borrowed: A = FF, Carry clear *)
C10_Witness ==
    /\ trace = <<"sbc">>
    /\ start.a = 0 /\ start.value = 1 /\ Flag(start.status, CARRY)
    /\ a = 255 /\ ~Flag(status, CARRY) /\ Flag(status, SIGN)

----------------------------------------------------------------------------
(* SpecResolve: each resolver called once, on operands, index registers    *)
(* and zero-page bytes that reach both sides of every wrap and page cross. *)
ResolvePCs == {1536, 65534, 65535}

ResolveBytes == {0, 128, 255}

ResolveHighBytes == {0, 18, 255}

ResolveIndexes == {0, 1, 255}

InitResolve ==
    \E checks \in BOOLEAN, dbg \in BOOLEAN, at \in ResolvePCs,
       b1 \in ResolveBytes, b2 \in ResolveHighBytes,
       rx \in ResolveIndexes, ry \in ResolveIndexes, d \in ResolveBytes :
        LET data == [k \in {b1, (b1 + rx) % 256} |-> d]
            bus == Program(at, <<b1, b2>>) @@ data
        IN  InitFrom([new(bus, checks) EXCEPT !.pc = at, !.debug = dbg,
                                              !.x = rx, !.y = ry],
                     "idle")

NextResolve ==
    \/ Implied \/ Immediate \/ Relative \/ Zeropage \/ ZeropageX
    \/ Absolute \/ AbsoluteX \/ AbsoluteY \/ IndirectX \/ IndirectY

SpecResolve == InitResolve /\ [][NextResolve]_vars

(* the operand bytes the resolver finds at PC *)
Operand8 == BusRead(start.mem, start.pc)

Operand16 ==
    BusRead(start.mem, start.pc)
    + 256 * BusRead(start.mem, (start.pc + 1) % 65536)

HighByte(n) == (n \div 256) % 256

(* the cost table of the resolvers *)
TableCost(mode) ==
    CASE mode \in {"implied", "immediate", "relative", "indirect_x"} -> 2
      [] mode \in {"zeropage", "zeropage_x"} -> 3
      [] mode = "absolute" -> 4
      [] mode = "absolute_x" ->
            4 + (IF HighByte(Operand16 + start.x) # HighByte(Operand16)
                 THEN 1 ELSE 0)
      [] mode = "absolute_y" ->
            4 + (IF HighByte(Operand16 + start.y) # HighByte(Operand16)
                 THEN 1 ELSE 0)
      [] mode = "indirect_y" ->
            2 + (IF HighByte(BusRead(start.mem, Operand8) + start.y) # 0
                 THEN 1 ELSE 0)

(* C4: every resolver, for every operand, X, Y and memory content, adds    *)
(* to the cycle counter exactly the cost of the table (stated for operand  *)
(* bytes that lie below the top of the address space).                     *)
C4_ResolverCycles ==
    (Len(trace) = 1 /\ start.pc + 2 <= 65535) =>
        ticks = start.ticks + TableCost(trace[1])

----------------------------------------------------------------------------
(* SpecCall: absolute, jsr, implied and rts called in any order, from      *)
(* every stack pointer; the operand at PC is the target $1234.             *)
CallPCs == {1, 1537, 65534}

InitCall ==
    \E checks \in BOOLEAN, at \in CallPCs, s0 \in Byte :
        InitFrom([new(Program(at, <<52, 18>>), checks) EXCEPT !.pc = at,
                                                              !.sp = s0],
                 "idle")

NextCall == Absolute \/ Jsr \/ Implied \/ Rts

SpecCall == InitCall /\ [][NextCall]_vars

(* C5: JSR with its opcode at p = PC - 1 (absolute, then jsr) followed by  *)
(* RTS (implied, then rts) leaves PC = p + 3 and SP as before the JSR, for *)
(* every initial SP and every PC.                                          *)
C5_JsrRtsRoundTrip ==
    trace = <<"absolute", "jsr", "implied", "rts">> =>
        /\ pc = (start.pc + 2) % 65536
        /\ sp = start.sp

----------------------------------------------------------------------------
(* SpecStack: implied, pha, pla, php and plp called in any order, from     *)
(* every stack pointer.                                                    *)
StackBytes == {0, 66, 255}

StackStatuses == {32, 163}

InitStack ==
    \E checks \in BOOLEAN, s0 \in Byte, a0 \in StackBytes,
       st \in StackStatuses :
        InitFrom([new(<<>>, checks) EXCEPT !.sp = s0, !.a = a0,
                                           !.status = st],
                 "idle")

NextStack == Implied \/ Pha \/ Pla \/ Php \/ Plp

SpecStack == InitStack /\ [][NextStack]_vars

IsPrefix(p, q) == Len(p) <= Len(q) /\ p = SubSeq(q, 1, Len(p))

(* C7: for every register value and every initial SP, SP = 00 included     *)
(* (where the push wraps SP to FF), pha then pla leaves A and SP as they   *)
(* were before the push, and php then plp leaves Status and SP so.         *)
C7_PushPullRoundTrip ==
    /\ (\/ IsPrefix(trace, <<"implied", "pha", "implied", "pla">>)
        \/ IsPrefix(trace, <<"implied", "php", "implied", "plp">>)) =>
           panic = ""
    /\ (trace \in {<<"implied", "pha">>, <<"implied", "php">>}) =>
           sp = (start.sp + 255) % 256
    /\ trace = <<"implied", "pha", "implied", "pla">> =>
           (a = start.a /\ sp = start.sp)
    /\ trace = <<"implied", "php", "implied", "plp">> =>
           (status = start.status /\ sp = start.sp)

(* C9: bit 5 of Status is 1 after construction and after any sequence of   *)
(* resolvers and executors, plp of any byte on the stack included.         *)
C9_StatusBit5 == Flag(status, 32)

----------------------------------------------------------------------------
(* SpecBranch: relative, beq, bcs and bcc called in any order, on every    *)
(* offset byte and every state of Zero and Carry.                          *)
BranchPCs == {1, 1536, 65520, 65535}

BranchStatuses == {32, 33, 34, 35}

InitBranch ==
    \E checks \in BOOLEAN, at \in BranchPCs, off \in Byte,
       st \in BranchStatuses :
        InitFrom([new(Program(at, <<off>>), checks) EXCEPT !.pc = at,
                                                           !.status = st],
                 "idle")

NextBranch == Relative \/ Beq \/ Bcs \/ Bcc

SpecBranch == InitBranch /\ [][NextBranch]_vars

(* the flag state that makes the branch jump *)
BranchTaken(br, st) ==
    CASE br = "beq" -> Flag(st, ZERO)
      [] br = "bcs" -> Flag(st, CARRY)
      [] br = "bcc" -> ~Flag(st, CARRY)

(* C8: relative followed by beq, bcs or bcc, for every PC, offset and flag *)
(* state, with q the address after the operand: untaken leaves PC = q and  *)
(* charges 2 cycles, taken leaves PC = (q + signed offset) mod 65536 and   *)
(* charges 3; nothing else changes.                                        *)
C8_Branch ==
    /\ trace = <<"relative">> => panic = ""
    /\ (Len(trace) = 2 /\ trace[1] = "relative") =>
           LET q == (start.pc + 1) % 65536
               offset == Signed(BusRead(start.mem, start.pc))
           IN  /\ panic = ""
               /\ IF BranchTaken(trace[2], start.status)
                  THEN pc = (q + offset + 65536) % 65536
                       /\ ticks = start.ticks + 3
                  ELSE pc = q /\ ticks = start.ticks + 2
               /\ a = start.a /\ x = start.x /\ y = start.y
               /\ sp = start.sp /\ status = start.status
               /\ mem = start.mem

----------------------------------------------------------------------------
(* SpecHost: step() on a constructed core whose pub registers the host has *)
(* set: a registered opcode at PC, operands and index registers on both    *)
(* sides of every wrap.                                                    *)
HostPCs == {1536, 65533, 65534, 65535}

HostDataBytes == {0, 255}

(* cycle counts the host stores in the pub field: 0, u64::MAX - 2 and      *)
(* u64::MAX, in the reading of TicksOverflow                               *)
HostTicks == {0, -3, -1}

InitHost ==
    \E checks \in BOOLEAN, dbg \in BOOLEAN, at \in HostPCs,
       op \in RegisteredCodes, b1 \in ResolveBytes, b2 \in ResolveHighBytes,
       rx \in ResolveIndexes, ry \in ResolveIndexes, d \in HostDataBytes,
       t0 \in HostTicks :
        LET data == [k \in {b1, (b1 + rx) % 256} |-> d]
            bus == Program(at, <<op, b1, b2>>) @@ data
        IN  InitFrom([new(bus, checks) EXCEPT !.pc = at, !.debug = dbg,
                                              !.x = rx, !.y = ry,
                                              !.ticks = t0],
                     "idle")

NextHost == Step

SpecHost == InitHost /\ [][NextHost]_vars

(* C11: step() on a registered opcode byte completes normally in every     *)
(* state of registers and memory (PC at the top of the address space,      *)
(* operand + X > FF, operand + index > FFFF included).                     *)
C11_StepTotal ==
    (LastCall = "step" /\ BusRead(pre.mem, pre.pc) \in RegisteredCodes) =>
        panic = ""

----------------------------------------------------------------------------
(* Properties of the stack operations *)
StackOps == {"pha", "pla", "php", "plp", "jsr", "rts"}

(* the addresses of the bus accesses of the latest call, in order *)
BusAddresses ==
    [i \in {k \in 1..Len(log) : log[k][1] \in {"read", "write"}} |->
        log[i][2]]

(* C12: every bus read or write of a stack operation targets an address in *)
(* 0100..01FF, for every initial SP; the second byte pushed by jsr goes to *)
(* 0100 + ((SP - 1) mod 256) and the second byte pulled by rts comes from  *)
(* 0100 + (SP after its second increment, mod 256).                        *)
C12_StackPage ==
    LastCall \in StackOps =>
        /\ \A i \in DOMAIN BusAddresses : BusAddresses[i] \in 256..511
        /\ (LastCall = "jsr" /\ Len(log) = 2) =>
               log[2] = <<"write", 256 + ((pre.sp + 255) % 256)>>
        /\ (LastCall = "rts" /\ Len(log) = 2) =>
               log[2] = <<"read", 256 + ((pre.sp + 2) % 256)>>

(* C13: absolute then jsr, opcode at p = PC - 1 and SP = s >= 1: the high  *)
(* byte of p + 2 is written at 0100 + s, its low byte at 0100 + s - 1, SP  *)
(* becomes s - 2, PC the operand, 6 cycles are charged, and A, X, Y and    *)
(* Status are unchanged.                                                   *)
C13_JsrEffect ==
    (/\ IsPrefix(trace, <<"absolute", "jsr">>)
     /\ start.sp >= 1 /\ start.pc + 2 <= 65535) =>
        /\ panic = ""
        /\ trace = <<"absolute", "jsr">> =>
               LET ret == start.pc + 1
               IN  /\ BusRead(mem, 256 + start.sp) = ret \div 256
                   /\ BusRead(mem, 256 + start.sp - 1) = ret % 256
                   /\ sp = (start.sp - 2 + 256) % 256
                   /\ pc = Operand16
                   /\ ticks = start.ticks + 6
                   /\ a = start.a /\ x = start.x /\ y = start.y
                   /\ status = start.status

----------------------------------------------------------------------------
(* SpecFlags: a core with any Status byte and a program of two flag        *)
(* instructions, driven by step().                                         *)
FlagCodes == {24, 56, 88, 120, 184, 216, 248}

InitFlags ==
    \E checks \in BOOLEAN, at \in ProgramStarts, st \in Byte,
       op1 \in FlagCodes, op2 \in FlagCodes :
        InitFrom([new(Program(at, <<op1, op2>>), checks) EXCEPT !.pc = at,
                                                               !.status = st],
                 "idle")

NextFlags == Step

SpecFlags == InitFlags /\ [][NextFlags]_vars

(* the Status bit a flag instruction names and the value it gives it *)
NamedFlag(code) ==
    CASE code = 24 -> <<CARRY, FALSE>>
      [] code = 56 -> <<CARRY, TRUE>>
      [] code = 88 -> <<INTERRUPT, FALSE>>
      [] code = 120 -> <<INTERRUPT, TRUE>>
      [] code = 184 -> <<OVERFLOW, FALSE>>
      [] code = 216 -> <<DECIMAL, FALSE>>
      [] code = 248 -> <<DECIMAL, TRUE>>

(* Status `st` with the bit `mask` given the value `enabled`, all other    *)
(* bits kept                                                               *)
WithBit(st, mask, enabled) ==
    IF enabled
    THEN (IF Flag(st, mask) THEN st ELSE st + mask)
    ELSE (IF Flag(st, mask) THEN st - mask ELSE st)

(* C14: a step() on clc, sec, cli, sei, clv, cld or sed gives the one      *)
(* named Status bit the named value and leaves every other Status bit, A,  *)
(* X, Y, SP and all memory unchanged; PC advances by exactly 1 and the     *)
(* cycle counter by exactly 2.                                             *)
C14_FlagInstructions ==
    (LastCall = "step" /\ BusRead(pre.mem, pre.pc) \in FlagCodes) =>
        LET named == NamedFlag(BusRead(pre.mem, pre.pc))
        IN  /\ panic = ""
            /\ status = WithBit(pre.status, named[1], named[2])
            /\ a = pre.a /\ x = pre.x /\ y = pre.y /\ sp = pre.sp
            /\ mem = pre.mem
            /\ pc = pre.pc + 1
            /\ ticks = pre.ticks + 2

(* C14 witness: clv, as the second instruction, has cleared a set Overflow *)
(* bit of a Status byte whose other bits are all set.                      *)
C14_Witness ==
    /\ trace = <<"step", "step">>
    /\ BusRead(pre.mem, pre.pc) = 184
    /\ pre.status = 255
    /\ status = 191
    /\ pc = start.pc + 2
    /\ ticks = 4

----------------------------------------------------------------------------
(* The cycle counter over sequences of step() calls, under Spec *)

(* the order of cycle counts as u64 values *)
TicksLe(t, u) == IF (t < 0) = (u < 0) THEN t <= u ELSE t >= 0

(* C15: the cycle counter is never reset and never decreases over any      *)
(* sequence of step() calls, and every step() that completes increases it  *)
(* by at least 2; a step() in which no resolver or executor charged (the   *)
(* byte had no descriptor) leaves it as it was.                            *)
C15_TicksMonotone ==
    [][/\ TicksLe(ticks, ticks')
       /\ TicksLe(start.ticks, ticks')
       /\ panic' = "" => ticks' - ticks >= 2
       /\ panic' \in InvalidOpcodeMessages => ticks' = ticks]_vars

(* C15 witness: two completed step() calls, clc charging 2 cycles and then *)
(* adc zeropage charging 3.                                                *)
C15_Witness ==
    /\ trace = <<"step", "step">>
    /\ panic = ""
    /\ BusRead(pre.mem, pre.pc) = 101
    /\ pre.ticks = 2
    /\ ticks = 5

----------------------------------------------------------------------------
(* The trace line, under SpecResolve *)

(* C16: while the debug flag is disabled, no resolver of any addressing    *)
(* mode modifies the trace line: it stays at its construction value, the   *)
(* empty string.                                                           *)
C16_TraceGated ==
    ~start.debug => debug_line = ""

----------------------------------------------------------------------------
(* The program counter across step(), under SpecHost *)

(* operand byte count of an addressing mode *)
OperandCount(mode) ==
    CASE mode = "implied" -> 0
      [] mode \in {"immediate", "zeropage", "zeropage_x", "indirect_x",
                   "indirect_y"} -> 1
      [] mode \in {"absolute", "absolute_x", "absolute_y"} -> 2

(* the bus accesses of the latest call after its resolver was dispatched *)
AfterFetch ==
    LET at == CHOOSE i \in 1..Len(log) : log[i][1] = "fetch"
    IN  SubSeq(log, at + 1, Len(log))

(* C17: after every step() that completes on a registered opcode (none of  *)
(* them a control-flow instruction), PC = (PC_before + 1 + n) mod 65536    *)
(* with n the operand byte count of the addressing mode; the opcode is the *)
(* byte read at PC_before, and the operand bytes are the bytes read at     *)
(* PC_before + 1 (low) and PC_before + 2 (high), in that order.            *)
C17_PcAfterStep ==
    (/\ LastCall = "step" /\ panic = ""
     /\ BusRead(pre.mem, pre.pc) \in RegisteredCodes) =>
        LET mode == opcode.fetch
            n == OperandCount(mode)
            low == BusRead(pre.mem, (pre.pc + 1) % 65536)
            high == BusRead(pre.mem, (pre.pc + 2) % 65536)
        IN  /\ pc = (pre.pc + 1 + n) % 65536
            /\ current_opcode = BusRead(pre.mem, pre.pc)
            /\ opcode = opcodes[current_opcode]
            /\ log[1] = <<"read", pre.pc>>
            /\ log[2] = <<"fetch", mode>>
            /\ n >= 1 => AfterFetch[1] = <<"read", (pre.pc + 1) % 65536>>
            /\ n = 2 => AfterFetch[2] = <<"read", (pre.pc + 2) % 65536>>
            /\ mode = "immediate" => value = low
            /\ mode = "zeropage" => addr = low
            /\ mode = "zeropage_x" => addr = (low + pre.x) % 256
            /\ mode = "absolute" => addr = low + 256 * high
            /\ mode = "absolute_x" => addr = (low + 256 * high + pre.x) % 65536
            /\ mode = "absolute_y" => addr = (low + 256 * high + pre.y) % 65536

(* C17 witness: adc absolute,X at 0xFFFD with the operand 0x1280 has       *)
(* completed: both operand bytes were read and PC wrapped to 0x0000.       *)
C17_Witness ==
    /\ trace = <<"step">>
    /\ panic = ""
    /\ start.pc = 65533
    /\ current_opcode = 125
    /\ BusRead(start.mem, 65534) = 128
    /\ BusRead(start.mem, 65535) = 18
    /\ pc = 0

----------------------------------------------------------------------------
(* The latched address and value, under SpecResolve *)

MemoryModes ==
    {"zeropage", "zeropage_x", "absolute", "absolute_x", "absolute_y",
     "indirect_x", "indirect_y"}

(* the effective address of a memory-operand mode for the operand at PC *)
EffectiveAddress(mode) ==
    CASE mode = "zeropage" -> Operand8
      [] mode = "zeropage_x" -> (Operand8 + start.x) % 256
      [] mode = "absolute" -> Operand16
      [] mode = "absolute_x" -> (Operand16 + start.x) % 65536
      [] mode = "absolute_y" -> (Operand16 + start.y) % 65536
      [] mode = "indirect_x" ->
            BusRead(start.mem, (Operand8 + start.x) % 256)
      [] mode = "indirect_y" -> BusRead(start.mem, Operand8) + start.y

(* C18: after a memory-operand resolver has run, the latched address is    *)
(* the mode's effective address and the latched value is the bus byte at   *)
(* that latched address; for (indirect),Y the address is (byte at the      *)
(* zero-page operand) + Y and for (indirect,X) the address held in the     *)
(* zero-page byte at (operand + X) mod 256.                                *)
C18_LatchedAddress ==
    (Len(trace) = 1 /\ trace[1] \in MemoryModes /\ panic = "") =>
        /\ addr = EffectiveAddress(trace[1])
        /\ value = BusRead(mem, addr)

----------------------------------------------------------------------------
(* Signed overflow of the ALU executors, under SpecAlu *)

(* C19: for every A, value and Carry, with sA and sV the two's-complement  *)
(* readings of A and value and borrow = 0 if Carry is set else 1, Overflow *)
(* after SBC is set if and only if sA - sV - borrow is outside -128..127.  *)
C19_SbcSignedOverflow ==
    trace = <<"sbc">> =>
        LET borrow == IF Flag(start.status, CARRY) THEN 0 ELSE 1
            signed == Signed(start.a) - Signed(start.value) - borrow
        IN  Flag(status, OVERFLOW) = (signed \notin -128..127)

(* C20: for every A, value and Carry, with sA and sV the two's-complement  *)
(* readings of A and value and carryIn = 1 if Carry is set else 0,         *)
(* Overflow after ADC is set if and only if sA + sV + carryIn is outside   *)
(* -128..127.                                                              *)
C20_AdcSignedOverflow ==
    trace = <<"adc">> =>
        LET carryIn == IF Flag(start.status, CARRY) THEN 1 ELSE 0
            signed == Signed(start.a) + Signed(start.value) + carryIn
        IN  /\ panic = ""
            /\ Flag(status, OVERFLOW) = (signed \notin -128..127)

(* C20 witness: 80 + FF with Carry clear (-128 + -1) has overflowed below  *)
(* -128: A = 7F with Overflow and Carry set.                               *)
C20_Witness ==
    /\ trace = <<"adc">>
    /\ start.a = 128 /\ start.value = 255 /\ ~Flag(start.status, CARRY)
    /\ a = 127 /\ Flag(status, OVERFLOW) /\ Flag(status, CARRY)

====
